---- MODULE Spec2Model ----
(***************************************************************************)
(* Model of noko_client.client.NokoClient: every public method normalizes  *)
(* its arguments, builds one request (uri, http_method, query_params,      *)
(* post_args) and delegates to the transport collaborator fetch_json.      *)
(*                                                                         *)
(* Python values are tagged records; Python strings are sequences of       *)
(* one-character strings so that parsing and formatting are computed.      *)
(* URIs are TLA+ strings built by concatenation, as the f-strings do.      *)
(***************************************************************************)
EXTENDS Integers, Sequences, FiniteSets, TLC

VARIABLES pc, call, sent, reply, outcome

vars == <<pc, call, sent, reply, outcome>>

(***************************************************************************)
(* Bounds of the model.                                                    *)
(***************************************************************************)
\* longest ID list / tuple handed to a one-or-many operation
MaxIds == 2

(***************************************************************************)
(* Python values.                                                          *)
(***************************************************************************)
PyNone == [t |-> "none"]
PyInt(n) == [t |-> "int", v |-> n]
PyStr(chars) == [t |-> "str", s |-> chars]
PyBool(b) == [t |-> "bool", b |-> b]
PyList(items) == [t |-> "list", items |-> items]
PyTuple(items) == [t |-> "tuple", items |-> items]
PyDateTime(y, mo, d, h, mi, s) ==
    [t |-> "datetime", y |-> y, mo |-> mo, d |-> d, h |-> h, mi |-> mi, s |-> s]
PyDict(d) == [t |-> "dict", d |-> d]

\* isinstance(value, list)
IsList(value) == value.t = "list"

DigitChars == <<"0", "1", "2", "3", "4", "5", "6", "7", "8", "9">>

IsDigit(c) == \E i \in 1..10 : DigitChars[i] = c

DigitVal(c) == (CHOOSE i \in 1..10 : DigitChars[i] = c) - 1

\* the decimal text of a natural number, as str(n) / f"{n}" writes it
RECURSIVE IntToChars(_)
IntToChars(n) ==
    IF n < 10 THEN <<DigitChars[n + 1]>>
    ELSE IntToChars(n \div 10) \o <<DigitChars[(n % 10) + 1]>>

\* the number a string of decimal digits denotes, as int(s) reads it
RECURSIVE CharsToInt(_)
CharsToInt(chars) ==
    IF chars = <<>> THEN 0
    ELSE 10 * CharsToInt(SubSeq(chars, 1, Len(chars) - 1)) + DigitVal(chars[Len(chars)])

IsNumeric(chars) == chars # <<>> /\ \A i \in 1..Len(chars) : IsDigit(chars[i])

\* a Python string as one TLA+ string (used for URIs)
RECURSIVE Text(_)
Text(chars) == IF chars = <<>> THEN "" ELSE chars[1] \o Text(Tail(chars))

\* n written with at least w digits, zero padded (strftime %Y %m %d %H %M %S)
RECURSIVE Pad(_, _)
Pad(n, w) ==
    LET c == IntToChars(n)
    IN  IF Len(c) >= w THEN c ELSE <<"0">> \o Pad(n, w - 1)

\* repr(value) of an element inside a tuple
Repr(value) ==
    IF value.t = "int" THEN IntToChars(value.v)
    ELSE <<"'">> \o value.s \o <<"'">>

RECURSIVE JoinRepr(_)
JoinRepr(items) ==
    IF items = <<>> THEN <<>>
    ELSE IF Len(items) = 1 THEN Repr(items[1])
    ELSE Repr(items[1]) \o <<",", " ">> \o JoinRepr(Tail(items))

\* format(value) as an f-string field "{value}" renders it
Format(value) ==
    CASE value.t = "int" -> IntToChars(value.v)
      [] value.t = "str" -> value.s
      [] value.t = "tuple" ->
            IF Len(value.items) = 1
            THEN <<"(">> \o Repr(value.items[1]) \o <<",", ")">>
            ELSE <<"(">> \o JoinRepr(value.items) \o <<")">>
      [] value.t = "list" -> <<"[">> \o JoinRepr(value.items) \o <<"]">>

(***************************************************************************)
(* noko_client.schemas.utilities: the normalization helpers.  Each returns *)
(* Valid(value) or Invalid (the helper raises a validation error).         *)
(***************************************************************************)
Valid(value) == [ok |-> TRUE, val |-> value]
Invalid == [ok |-> FALSE]

IsLeap(y) == (y % 4 = 0 /\ y % 100 # 0) \/ y % 400 = 0

DaysIn(y, mo) ==
    IF mo = 2 THEN (IF IsLeap(y) THEN 29 ELSE 28)
    ELSE IF mo \in {4, 6, 9, 11} THEN 30 ELSE 31

AllDigits(chars, from, to) == \A i \in from..to : IsDigit(chars[i])

\* the first ten characters are a calendar date written YYYY-MM-DD
IsIsoDateAt(chars) ==
    /\ AllDigits(chars, 1, 4) /\ chars[5] = "-"
    /\ AllDigits(chars, 6, 7) /\ chars[8] = "-"
    /\ AllDigits(chars, 9, 10)
    /\ LET y == CharsToInt(SubSeq(chars, 1, 4))
           mo == CharsToInt(SubSeq(chars, 6, 7))
           d == CharsToInt(SubSeq(chars, 9, 10))
       IN  mo \in 1..12 /\ d \in 1..DaysIn(y, mo)

\* a string in ISO 8601 date form, YYYY-MM-DD
IsIsoDate(chars) == Len(chars) = 10 /\ IsIsoDateAt(chars)

\* a string in ISO 8601 timestamp form, YYYY-MM-DDTHH:MM:SSZ
IsIsoTimestamp(chars) ==
    /\ Len(chars) = 20
    /\ IsIsoDateAt(chars)
    /\ chars[11] = "T" /\ AllDigits(chars, 12, 13) /\ chars[14] = ":"
    /\ AllDigits(chars, 15, 16) /\ chars[17] = ":"
    /\ AllDigits(chars, 18, 19) /\ chars[20] = "Z"
    /\ CharsToInt(SubSeq(chars, 12, 13)) \in 0..23
    /\ CharsToInt(SubSeq(chars, 15, 16)) \in 0..59
    /\ CharsToInt(SubSeq(chars, 18, 19)) \in 0..59

DateChars(dt) == Pad(dt.y, 4) \o <<"-">> \o Pad(dt.mo, 2) \o <<"-">> \o Pad(dt.d, 2)

TimestampChars(dt) ==
    DateChars(dt) \o <<"T">> \o Pad(dt.h, 2) \o <<":">> \o Pad(dt.mi, 2)
                  \o <<":">> \o Pad(dt.s, 2) \o <<"Z">>

\* date_to_string(date): a datetime is written YYYY-MM-DD, a string must
\* already have that form and is returned as it is
date_to_string(date) ==
    CASE date.t = "datetime" -> Valid(PyStr(DateChars(date)))
      [] date.t = "str" -> IF IsIsoDate(date.s) THEN Valid(date) ELSE Invalid
      [] OTHER -> Invalid

\* timestamp_to_string(timestamp): a datetime is written
\* YYYY-MM-DDTHH:MM:SSZ, a string must already have that form, and an absent
\* timestamp is the current time `now`
timestamp_to_string(timestamp, now) ==
    CASE timestamp.t = "none" -> Valid(PyStr(TimestampChars(now)))
      [] timestamp.t = "datetime" -> Valid(PyStr(TimestampChars(timestamp)))
      [] timestamp.t = "str" ->
            IF IsIsoTimestamp(timestamp.s) THEN Valid(timestamp) ELSE Invalid
      [] OTHER -> Invalid

\* the pieces of a string between its commas
RECURSIVE SplitComma(_)
SplitComma(chars) ==
    IF \A i \in 1..Len(chars) : chars[i] # ","
    THEN <<chars>>
    ELSE LET k == CHOOSE i \in 1..Len(chars) :
                      chars[i] = "," /\ \A j \in 1..(i - 1) : chars[j] # ","
         IN  <<SubSeq(chars, 1, k - 1)>> \o SplitComma(SubSeq(chars, k + 1, Len(chars)))

\* one ID as an integer: an int is kept, a string of digits is parsed
IsId(value) ==
    \/ value.t = "int"
    \/ value.t = "str" /\ IsNumeric(value.s)

IdToInt(value) == IF value.t = "int" THEN value.v ELSE CharsToInt(value.s)

\* the IDs an ID-list argument holds: the elements of a list, the pieces of
\* a comma-separated string, or the one scalar ID
IdItems(value) ==
    CASE value.t \in {"list", "tuple"} -> value.items
      [] value.t = "str" ->
            [i \in 1..Len(SplitComma(value.s)) |-> PyStr(SplitComma(value.s)[i])]
      [] OTHER -> <<value>>

\* list_to_list_of_integers(value): every ID as an integer, in the given
\* order; a non-numeric element is a validation error
list_to_list_of_integers(value) ==
    LET items == IdItems(value)
    IN  IF \A i \in 1..Len(items) : IsId(items[i])
        THEN Valid(PyList([i \in 1..Len(items) |-> PyInt(IdToInt(items[i]))]))
        ELSE Invalid

RECURSIVE JoinComma(_)
JoinComma(items) ==
    IF items = <<>> THEN <<>>
    ELSE IF Len(items) = 1 THEN IntToChars(items[1].v)
    ELSE IntToChars(items[1].v) \o <<",">> \o JoinComma(Tail(items))

\* list_to_string(value): the IDs as integers joined by commas (query form)
list_to_string(value) ==
    LET ints == list_to_list_of_integers(value)
    IN  IF ints.ok THEN Valid(PyStr(JoinComma(ints.val.items))) ELSE Invalid

\* boolean filter: True / "true" -> "true", False / "false" -> "false"
bool_to_string(value) ==
    CASE value.t = "bool" ->
            Valid(PyStr(IF value.b THEN <<"t", "r", "u", "e">>
                                   ELSE <<"f", "a", "l", "s", "e">>))
      [] value.t = "str" ->
            IF value.s \in {<<"t", "r", "u", "e">>, <<"f", "a", "l", "s", "e">>}
            THEN Valid(value) ELSE Invalid
      [] OTHER -> Invalid

(***************************************************************************)
(* noko_client.schemas: the pydantic parameter schemas.  A schema declares *)
(* its fields (name -> kind of normalization) and the required ones.       *)
(***************************************************************************)
\* GetNokoEntriesParameters: the filters of list_entries
GetNokoEntriesParameters ==
    [fields |-> [user_ids |-> "ids", description |-> "text", project_ids |-> "ids",
                 tag_ids |-> "ids", tag_filter_type |-> "text", from_ |-> "date",
                 to |-> "date", invoiced |-> "bool", updated_from |-> "timestamp",
                 updated_to |-> "timestamp", billable |-> "bool",
                 approved_at_from |-> "date", approved_at_to |-> "date"],
     required |-> {}]

\* GetNokoTagsParameters: the filters of list_tags
GetNokoTagsParameters ==
    [fields |-> [name |-> "text", billable |-> "bool"], required |-> {}]

\* CreateNokoEntryParameters: date, user_id and minutes are required
CreateNokoEntryParameters ==
    [fields |-> [date |-> "date", user_id |-> "id", minutes |-> "int",
                 description |-> "text", project_id |-> "id",
                 project_name |-> "text", source_url |-> "text"],
     required |-> {"date", "user_id", "minutes"}]

\* EditNokoEntryParameters: the same fields, all optional
EditNokoEntryParameters ==
    [fields |-> CreateNokoEntryParameters.fields, required |-> {}]

\* the field-level coercion of one supplied value
NormalizeField(kind, value) ==
    CASE kind = "ids" -> list_to_string(value)
      [] kind = "date" -> date_to_string(value)
      [] kind = "timestamp" ->
            IF value.t \in {"str", "datetime"}
            THEN timestamp_to_string(value, value) ELSE Invalid
      [] kind = "bool" -> bool_to_string(value)
      [] kind = "text" -> IF value.t = "str" THEN Valid(value) ELSE Invalid
      [] kind = "int" -> IF value.t = "int" THEN Valid(value) ELSE Invalid
      [] kind = "id" -> IF IsId(value) THEN Valid(value) ELSE Invalid

\* a keyword given as None is the same as a keyword not given
IsSet(kwargs, k) == k \in DOMAIN kwargs /\ kwargs[k] # PyNone

\* Schema(**kwargs): strict construction.  An undeclared keyword, a missing
\* required field or a value its field cannot coerce is a validation error;
\* otherwise the instance holds every declared field, None where unset.
Construct(schema, kwargs) ==
    IF \E k \in DOMAIN kwargs : k \notin DOMAIN schema.fields
    THEN Invalid
    ELSE IF \E k \in schema.required : ~IsSet(kwargs, k)
    THEN Invalid
    ELSE IF \E k \in DOMAIN kwargs :
                IsSet(kwargs, k) /\ ~NormalizeField(schema.fields[k], kwargs[k]).ok
    THEN Invalid
    ELSE Valid([k \in DOMAIN schema.fields |->
                  IF IsSet(kwargs, k)
                  THEN NormalizeField(schema.fields[k], kwargs[k]).val
                  ELSE PyNone])

\* instance.model_dump(): the mapping sent on the wire, unset fields omitted
model_dump(instance) ==
    PyDict([k \in {f \in DOMAIN instance : instance[f] # PyNone} |-> instance[k]])

\* dict(instance): every declared field, the unset ones as None
AllFields(instance) == PyDict(instance)

(***************************************************************************)
(* The request handed to the transport, and what a method does before it   *)
(* blocks in the transport or raises.                                      *)
(***************************************************************************)
\* fetch_json(uri, http_method=..., query_params=..., post_args=...)
Request(uri, http_method, query_params, post_args) ==
    [uri |-> uri, http_method |-> http_method,
     query_params |-> query_params, post_args |-> post_args]

\* the method reached its fetch_json call with this request
Issue(request) == [raised |-> FALSE, reqs |-> <<request>>]

\* the method raised a validation error before any fetch_json call
Reject == [raised |-> TRUE, reqs |-> <<>>]

(***************************************************************************)
(* Entry related methods.                                                  *)
(***************************************************************************)

\* list_entries dropping the keywords the schema does not declare
list_entries_call_ignore_extra(kwargs) ==
    LET declared == DOMAIN GetNokoEntriesParameters.fields
        known == [k \in DOMAIN kwargs \cap declared |-> kwargs[k]]
        params == Construct(GetNokoEntriesParameters, known)
    IN  IF ~params.ok THEN Reject
        ELSE Issue(Request("entries", "GET", model_dump(params.val), PyNone))

list_entries_call(kwargs) ==
    LET params == Construct(GetNokoEntriesParameters, kwargs)
    IN  IF ~params.ok THEN Reject
        ELSE Issue(Request("entries", "GET", model_dump(params.val), PyNone))

get_single_entry_call(entry_id) ==
    Issue(Request("entries/" \o Text(Format(entry_id)), "GET", PyNone, PyNone))

create_entry_call(kwargs) ==
    LET data == Construct(CreateNokoEntryParameters, kwargs)
    IN  IF ~data.ok THEN Reject
        ELSE Issue(Request("entries", "POST", PyNone, model_dump(data.val)))


\* edit_entry sending every field of the instance, the unset ones as None
edit_entry_call_all_fields(entry_id, kwargs) ==
    LET data == Construct(EditNokoEntryParameters, kwargs)
    IN  IF ~data.ok THEN Reject
        ELSE Issue(Request("entries/" \o Text(Format(entry_id)), "PUT",
                           PyNone, AllFields(data.val)))

edit_entry_call(entry_id, kwargs) ==
    LET data == Construct(EditNokoEntryParameters, kwargs)
    IN  IF ~data.ok THEN Reject
        ELSE Issue(Request("entries/" \o Text(Format(entry_id)), "PUT",
                           PyNone, model_dump(data.val)))


\* mark_as_invoiced sending the list as the caller gave it, unconverted
mark_as_invoiced_call_raw_ids(entry_ids, date) ==
    LET d == date_to_string(date)
    IN  IF ~d.ok THEN Reject
        ELSE IF IsList(entry_ids)
        THEN IF ~list_to_list_of_integers(entry_ids).ok THEN Reject
             ELSE Issue(Request("entries/mark_as_invoiced", "PUT", PyNone,
                                PyDict([date |-> d.val, entry_ids |-> entry_ids])))
        ELSE Issue(Request("entries/" \o Text(Format(entry_ids)) \o "/mark_as_invoiced",
                           "PUT", PyNone, PyDict([date |-> d.val])))

\* mark_as_invoiced putting the scalar ID in the body of the per-record
\* request as well
mark_as_invoiced_call_id_in_body(entry_ids, date) ==
    LET d == date_to_string(date)
    IN  IF ~d.ok THEN Reject
        ELSE IF IsList(entry_ids)
        THEN LET ids == list_to_list_of_integers(entry_ids)
             IN  IF ~ids.ok THEN Reject
                 ELSE Issue(Request("entries/mark_as_invoiced", "PUT", PyNone,
                                    PyDict([date |-> d.val, entry_ids |-> ids.val])))
        ELSE Issue(Request("entries/" \o Text(Format(entry_ids)) \o "/mark_as_invoiced",
                           "PUT", PyNone,
                           PyDict([date |-> d.val, entry_ids |-> PyList(<<entry_ids>>)])))

mark_as_invoiced_call(entry_ids, date) ==
    LET d == date_to_string(date)
    IN  IF ~d.ok THEN Reject
        ELSE LET post_args == [date |-> d.val]
                 uri == "entries/" \o Text(Format(entry_ids)) \o "/mark_as_invoiced"
             IN  IF IsList(entry_ids)
                 THEN LET ids == list_to_list_of_integers(entry_ids)
                      IN  IF ~ids.ok THEN Reject
                          ELSE Issue(Request("entries/mark_as_invoiced", "PUT", PyNone,
                                   PyDict(("entry_ids" :> ids.val) @@ post_args)))
                 ELSE Issue(Request(uri, "PUT", PyNone, PyDict(post_args)))


\* mark_as_approved leaving approved_at out of the body when the caller gave
\* none (the server would then pick the time)
mark_as_approved_call_optional_stamp(entry_ids, approved_at, now) ==
    LET at == timestamp_to_string(approved_at, now)
        post_args == IF approved_at = PyNone THEN <<>> ELSE [approved_at |-> at.val]
    IN  IF ~at.ok THEN Reject
        ELSE IF IsList(entry_ids)
        THEN LET ids == list_to_list_of_integers(entry_ids)
             IN  IF ~ids.ok THEN Reject
                 ELSE Issue(Request("entries/approved", "PUT", PyNone,
                                    PyDict(("entry_ids" :> ids.val) @@ post_args)))
        ELSE Issue(Request("entries/" \o Text(Format(entry_ids)) \o "/approved", "PUT",
                           PyNone, PyDict(post_args)))

\* mark_as_approved converting the list only after the request went out
mark_as_approved_call_send_first(entry_ids, approved_at, now) ==
    LET at == timestamp_to_string(approved_at, now)
    IN  IF ~at.ok THEN Reject
        ELSE IF IsList(entry_ids)
        THEN LET ids == list_to_list_of_integers(entry_ids)
                 request == Request("entries/approved", "PUT", PyNone,
                                    PyDict([approved_at |-> at.val,
                                            entry_ids |-> entry_ids]))
             IN  IF ~ids.ok THEN [raised |-> TRUE, reqs |-> <<request>>]
                 ELSE Issue(Request("entries/approved", "PUT", PyNone,
                                    PyDict([approved_at |-> at.val,
                                            entry_ids |-> ids.val])))
        ELSE Issue(Request("entries/" \o Text(Format(entry_ids)) \o "/approved", "PUT",
                           PyNone, PyDict([approved_at |-> at.val])))

mark_as_approved_call(entry_ids, approved_at, now) ==
    LET at == timestamp_to_string(approved_at, now)
    IN  IF ~at.ok THEN Reject
        ELSE LET uri == "entries/" \o Text(Format(entry_ids)) \o "/approved"
                 post_args == [approved_at |-> at.val]
             IN  IF IsList(entry_ids)
                 THEN LET ids == list_to_list_of_integers(entry_ids)
                      IN  IF ~ids.ok THEN Reject
                          ELSE Issue(Request("entries/approved", "PUT", PyNone,
                                   PyDict(("entry_ids" :> ids.val) @@ post_args)))
                 ELSE Issue(Request(uri, "PUT", PyNone, PyDict(post_args)))


\* mark_as_unapproved converting every entry_ids value first and taking the
\* bulk endpoint whenever it holds more than one ID
mark_as_unapproved_call_normalize_first(entry_ids) ==
    LET ids == list_to_list_of_integers(entry_ids)
    IN  IF ~ids.ok THEN Reject
        ELSE IF IsList(entry_ids) \/ Len(ids.val.items) > 1
        THEN Issue(Request("entries/unapproved", "PUT", PyNone,
                           PyDict([entry_ids |-> ids.val])))
        ELSE Issue(Request("entries/" \o Text(Format(entry_ids)) \o "/unapproved", "PUT",
                           PyNone, PyDict(<<>>)))

\* mark_as_unapproved without the isinstance test: always the bulk endpoint
mark_as_unapproved_call_always_bulk(entry_ids) ==
    LET ids == list_to_list_of_integers(entry_ids)
    IN  IF ~ids.ok THEN Reject
        ELSE Issue(Request("entries/unapproved", "PUT", PyNone,
                           PyDict([entry_ids |-> ids.val])))

mark_as_unapproved_call(entry_ids) ==
    LET uri == "entries/" \o Text(Format(entry_ids)) \o "/unapproved"
        post_args == <<>>
    IN  IF IsList(entry_ids)
        THEN LET ids == list_to_list_of_integers(entry_ids)
             IN  IF ~ids.ok THEN Reject
                 ELSE Issue(Request("entries/unapproved", "PUT", PyNone,
                                    PyDict(("entry_ids" :> ids.val) @@ post_args)))
        ELSE Issue(Request(uri, "PUT", PyNone, PyDict(post_args)))

delete_entry_call(entry_id) ==
    Issue(Request("entries/" \o Text(Format(entry_id)), "DELETE", PyNone, PyNone))

(***************************************************************************)
(* Tag related methods.                                                    *)
(***************************************************************************)

\* list_tags validating the keywords but sending them as the caller gave them
list_tags_call_raw(kwargs) ==
    LET params == Construct(GetNokoTagsParameters, kwargs)
    IN  IF ~params.ok THEN Reject
        ELSE Issue(Request("tags", "GET", PyDict(kwargs), PyNone))

list_tags_call(kwargs) ==
    LET params == Construct(GetNokoTagsParameters, kwargs)
    IN  IF ~params.ok THEN Reject
        ELSE Issue(Request("tags", "GET", model_dump(params.val), PyNone))

create_tags_call(names) ==
    Issue(Request("tags", "POST", PyNone, PyDict([names |-> names])))

get_single_tag_call(tag_id) ==
    Issue(Request("tags/" \o Text(Format(tag_id)), "GET", PyNone, PyNone))

get_all_entries_for_tag_call(tag_id, kwargs) ==
    LET params == Construct(GetNokoEntriesParameters, kwargs)
    IN  IF ~params.ok THEN Reject
        ELSE Issue(Request("tags/" \o Text(Format(tag_id)) \o "/entries", "GET",
                           model_dump(params.val), PyNone))

edit_tag_call(tag_id, name) ==
    Issue(Request("tags/" \o Text(Format(tag_id)), "PUT", PyNone,
                  PyDict([name |-> name])))


\* merge_tag_into_this_tag with the two IDs exchanged
merge_tag_into_this_tag_call_swapped(tag_id, tag_to_merge_id) ==
    Issue(Request("tags/" \o Text(Format(tag_to_merge_id)) \o "/merge", "PUT", PyNone,
                  PyDict([tag_id |-> tag_id])))

merge_tag_into_this_tag_call(tag_id, tag_to_merge_id) ==
    Issue(Request("tags/" \o Text(Format(tag_id)) \o "/merge", "PUT", PyNone,
                  PyDict([tag_id |-> tag_to_merge_id])))

delete_single_tag_call(tag_id) ==
    Issue(Request("tags/" \o Text(Format(tag_id)), "DELETE", PyNone, PyNone))

delete_tags_call(tag_ids) ==
    LET ids == list_to_list_of_integers(tag_ids)
    IN  IF ~ids.ok THEN Reject
        ELSE Issue(Request("tags/delete", "DELETE", PyNone,
                           PyDict([tag_ids |-> ids.val])))

\* the methods that return what fetch_json returned; the others return None
ReturningMethods ==
    {"list_entries", "get_single_entry", "create_entry", "edit_entry", "list_tags",
     "create_tags", "get_single_tag", "get_all_entries_for_tag", "edit_tag"}

(***************************************************************************)
(* The arguments the callers of the model pass.                            *)
(***************************************************************************)
Seqs(S, lo, hi) == UNION {[1..n -> S] : n \in lo..hi}

\* functions with any subset of the keys of vals, each key to one of its values
Kwargs(vals) ==
    UNION {{kw \in [K -> UNION {vals[k] : k \in K}] : \A k \in K : kw[k] \in vals[k]} :
           K \in SUBSET DOMAIN vals}

\* elements of ID collections: integers, numeric strings, a non-numeric string
IdElements ==
    {PyInt(5), PyInt(12), PyStr(<<"7">>), PyStr(<<"0", "7">>), PyStr(<<"x">>)}

\* a single ID: integer, numeric string, comma-separated string, other text
ScalarIds ==
    {PyInt(5), PyInt(12), PyStr(<<"7">>), PyStr(<<"5", ",", "6">>), PyStr(<<"x">>)}

IdLists == {PyList(items) : items \in Seqs(IdElements, 0, MaxIds)}

IdTuples == {PyTuple(items) : items \in Seqs({PyInt(5), PyStr(<<"7">>)}, 1, MaxIds)}

\* entry_ids of the mark_as_... methods
EntryIdsInputs == ScalarIds \cup IdLists \cup IdTuples

\* tag_ids of delete_tags
TagIdsInputs == ScalarIds \cup IdLists

\* entry_id / tag_id of the per-record methods
RecordIds == {PyInt(5), PyInt(12), PyStr(<<"7">>)}

Date_2024_01_01 == <<"2", "0", "2", "4", "-", "0", "1", "-", "0", "1">>
Date_2024_02_29 == <<"2", "0", "2", "4", "-", "0", "2", "-", "2", "9">>
Date_2023_02_29 == <<"2", "0", "2", "3", "-", "0", "2", "-", "2", "9">>
Date_2024_1_1 == <<"2", "0", "2", "4", "-", "1", "-", "1">>
Stamp_2024_01_01_10_00_00 == Date_2024_01_01 \o <<"T", "1", "0", ":", "0", "0", ":", "0", "0", "Z">>
Stamp_NoZone == Date_2024_01_01 \o <<"T", "1", "0", ":", "0", "0", ":", "0", "0">>

\* datetime objects, also the readings of the clock
DateTimes == {PyDateTime(2024, 1, 1, 0, 0, 0), PyDateTime(2023, 12, 31, 23, 59, 9)}

\* date: well-formed strings, malformed strings, datetime objects
DateInputs ==
    {PyStr(Date_2024_01_01), PyStr(Date_2024_02_29), PyStr(Date_2023_02_29),
     PyStr(Date_2024_1_1)} \cup DateTimes

\* approved_at: absent, a well-formed string, malformed strings, a datetime
TimestampInputs ==
    {PyNone, PyStr(Stamp_2024_01_01_10_00_00), PyStr(Stamp_NoZone),
     PyStr(Date_2024_01_01), PyDateTime(2023, 12, 31, 23, 59, 9)}

Word_urgent == <<"u", "r", "g", "e", "n", "t">>
Word_true == <<"t", "r", "u", "e">>
Word_TRUE == <<"T", "R", "U", "E">>
Word_dev == <<"d", "e", "v">>

\* keyword arguments of list_tags; colour is not a field of the schema
TagsKwargs ==
    Kwargs([name |-> {PyStr(Word_urgent), PyNone},
            billable |-> {PyBool(TRUE), PyBool(FALSE), PyStr(Word_true),
                          PyStr(Word_TRUE), PyNone},
            colour |-> {PyStr(Word_dev)}])

\* keyword arguments of list_entries and get_all_entries_for_tag; page is
\* not a field of the schema
EntriesKwargs ==
    Kwargs([user_ids |-> {PyList(<<PyInt(5), PyStr(<<"0", "7">>)>>),
                          PyStr(<<"5", ",", "6">>), PyList(<<PyStr(<<"x">>)>>)},
            invoiced |-> {PyBool(TRUE), PyBool(FALSE), PyNone},
            to |-> {PyStr(Date_2024_01_01), PyStr(Date_2024_1_1),
                    PyDateTime(2024, 1, 1, 0, 0, 0)},
            description |-> {PyStr(Word_dev)},
            page |-> {PyInt(5)}])

\* keyword arguments of create_entry and edit_entry; colour is not a field
EntryKwargs ==
    Kwargs([date |-> {PyStr(Date_2024_01_01), PyStr(Date_2024_1_1),
                      PyDateTime(2024, 1, 1, 0, 0, 0)},
            user_id |-> {PyInt(12)},
            minutes |-> {PyInt(5)},
            description |-> {PyStr(Word_dev), PyNone},
            project_id |-> {PyInt(5)},
            source_url |-> {PyStr(Word_dev)},
            colour |-> {PyStr(Word_dev)}])

\* names of create_tags
TagNames == {PyList(<<PyStr(Word_dev)>>), PyList(<<PyStr(Word_dev), PyStr(Word_urgent)>>)}

\* what the transport returns on success: nothing, or decoded JSON
Responses == {PyNone, PyList(<<PyDict([id |-> PyInt(5)])>>)}

\* what the transport raises: a non-success HTTP status, a network failure
TransportErrors == {"HTTPError", "ConnectionError"}

(***************************************************************************)
(* State: pc is where the current call stands ("idle" before the first     *)
(* call, "transport" while blocked in fetch_json, "done" once the method   *)
(* returned or raised), call is the method and its arguments, sent is the  *)
(* sequence of requests the call has handed to fetch_json so far, reply is *)
(* what fetch_json returned or raised, outcome is how the call ended.      *)
(***************************************************************************)
NoOutcome == [kind |-> "none"]
Returned(value) == [kind |-> "returned", value |-> value]
Raised(error) == [kind |-> "raised", error |-> error]

Init ==
    /\ pc = "idle"
    /\ call = [op |-> "none", args |-> <<>>]
    /\ sent = <<>>
    /\ reply = NoOutcome
    /\ outcome = NoOutcome

\* a method is called: it runs up to its fetch_json call, or raises.  The
\* client keeps no state between calls, so a behaviour is one call.
Invoke(op, args, plan) ==
    /\ call' = [op |-> op, args |-> args]
    /\ sent' = plan.reqs
    /\ reply' = NoOutcome
    /\ IF plan.raised
       THEN pc' = "done" /\ outcome' = Raised("ValidationError")
       ELSE pc' = "transport" /\ outcome' = NoOutcome

list_entries ==
    /\ pc = "idle"
    /\ \E kwargs \in EntriesKwargs :
        Invoke("list_entries", [kwargs |-> kwargs], list_entries_call(kwargs))

get_single_entry ==
    /\ pc = "idle"
    /\ \E entry_id \in RecordIds :
        Invoke("get_single_entry", [entry_id |-> entry_id],
                  get_single_entry_call(entry_id))

create_entry ==
    /\ pc = "idle"
    /\ \E kwargs \in EntryKwargs :
        Invoke("create_entry", [kwargs |-> kwargs], create_entry_call(kwargs))

edit_entry ==
    /\ pc = "idle"
    /\ \E entry_id \in RecordIds, kwargs \in EntryKwargs :
        Invoke("edit_entry", [entry_id |-> entry_id, kwargs |-> kwargs],
                  edit_entry_call(entry_id, kwargs))

mark_as_invoiced ==
    /\ pc = "idle"
    /\ \E entry_ids \in EntryIdsInputs, date \in DateInputs :
        Invoke("mark_as_invoiced", [entry_ids |-> entry_ids, date |-> date],
                  mark_as_invoiced_call(entry_ids, date))

mark_as_approved ==
    /\ pc = "idle"
    /\ \E entry_ids \in EntryIdsInputs, approved_at \in TimestampInputs, now \in DateTimes :
        Invoke("mark_as_approved",
                  [entry_ids |-> entry_ids, approved_at |-> approved_at, now |-> now],
                  mark_as_approved_call(entry_ids, approved_at, now))

mark_as_unapproved ==
    /\ pc = "idle"
    /\ \E entry_ids \in EntryIdsInputs :
        Invoke("mark_as_unapproved", [entry_ids |-> entry_ids],
                  mark_as_unapproved_call(entry_ids))

delete_entry ==
    /\ pc = "idle"
    /\ \E entry_id \in RecordIds :
        Invoke("delete_entry", [entry_id |-> entry_id], delete_entry_call(entry_id))

list_tags ==
    /\ pc = "idle"
    /\ \E kwargs \in TagsKwargs :
        Invoke("list_tags", [kwargs |-> kwargs], list_tags_call(kwargs))

create_tags ==
    /\ pc = "idle"
    /\ \E names \in TagNames :
        Invoke("create_tags", [names |-> names], create_tags_call(names))

get_single_tag ==
    /\ pc = "idle"
    /\ \E tag_id \in RecordIds :
        Invoke("get_single_tag", [tag_id |-> tag_id], get_single_tag_call(tag_id))

get_all_entries_for_tag ==
    /\ pc = "idle"
    /\ \E tag_id \in RecordIds, kwargs \in EntriesKwargs :
        Invoke("get_all_entries_for_tag", [tag_id |-> tag_id, kwargs |-> kwargs],
                  get_all_entries_for_tag_call(tag_id, kwargs))

edit_tag ==
    /\ pc = "idle"
    /\ \E tag_id \in RecordIds, name \in {PyStr(Word_dev), PyStr(Word_urgent)} :
        Invoke("edit_tag", [tag_id |-> tag_id, name |-> name],
                  edit_tag_call(tag_id, name))

merge_tag_into_this_tag ==
    /\ pc = "idle"
    /\ \E tag_id \in RecordIds, tag_to_merge_id \in RecordIds :
        Invoke("merge_tag_into_this_tag",
                  [tag_id |-> tag_id, tag_to_merge_id |-> tag_to_merge_id],
                  merge_tag_into_this_tag_call(tag_id, tag_to_merge_id))

delete_single_tag ==
    /\ pc = "idle"
    /\ \E tag_id \in RecordIds :
        Invoke("delete_single_tag", [tag_id |-> tag_id], delete_single_tag_call(tag_id))

delete_tags ==
    /\ pc = "idle"
    /\ \E tag_ids \in TagIdsInputs :
        Invoke("delete_tags", [tag_ids |-> tag_ids], delete_tags_call(tag_ids))

\* what a method does with the value fetch_json returned: it returns it, or
\* (the methods declared -> None) drops it and returns None
OnTransportReturn(op, response) ==
    Returned(IF op \in ReturningMethods THEN response ELSE PyNone)

\* a method that calls fetch_json once more after it raised
OnTransportErrorRetry(requests, error) ==
    IF Len(requests) < 2
    THEN [pc |-> "transport", sent |-> Append(requests, requests[1]),
          outcome |-> NoOutcome]
    ELSE [pc |-> "done", sent |-> requests, outcome |-> Raised(error)]

\* a method that catches what fetch_json raised and returns None
OnTransportErrorSwallow(requests, error) ==
    [pc |-> "done", sent |-> requests, outcome |-> Returned(PyNone)]

\* what a method does when fetch_json raised: nothing, the exception leaves
\* the method as it is, and the method issues nothing more
OnTransportError(requests, error) ==
    [pc |-> "done", sent |-> requests, outcome |-> Raised(error)]

\* the transport answers the pending request with parsed JSON
fetch_json_returns ==
    /\ pc = "transport"
    /\ \E response \in Responses :
        /\ pc' = "done"
        /\ reply' = Returned(response)
        /\ outcome' = OnTransportReturn(call.op, response)
    /\ UNCHANGED <<call, sent>>

\* the transport fails: non-success HTTP status or network failure
fetch_json_raises ==
    /\ pc = "transport"
    /\ \E error \in TransportErrors :
        LET after == OnTransportError(sent, error)
        IN  /\ pc' = after.pc
            /\ sent' = after.sent
            /\ reply' = Raised(error)
            /\ outcome' = after.outcome
    /\ UNCHANGED call

Next ==
    \/ list_entries
    \/ get_single_entry
    \/ create_entry
    \/ edit_entry
    \/ mark_as_invoiced
    \/ mark_as_approved
    \/ mark_as_unapproved
    \/ delete_entry
    \/ list_tags
    \/ create_tags
    \/ get_single_tag
    \/ get_all_entries_for_tag
    \/ edit_tag
    \/ merge_tag_into_this_tag
    \/ delete_single_tag
    \/ delete_tags
    \/ fetch_json_returns
    \/ fetch_json_raises

Spec == Init /\ [][Next]_vars

(***************************************************************************)
(* Properties.                                                             *)
(***************************************************************************)
Issued == sent # <<>>
Req == sent[1]
Body == Req.post_args.d
Query == Req.query_params.d

IsScalar(value) == value.t \in {"int", "str"}
IsCollection(value) == value.t \in {"list", "tuple"}

\* the integer n is the ID the caller wrote as elem
IntMatches(elem, n) ==
    IF elem.t = "int" THEN elem.v = n ELSE Pad(n, Len(elem.s)) = elem.s

\* ints holds the caller's IDs as integers: as many, each in its place
SameIdsInOrder(ints, given) ==
    /\ ints.t = "list"
    /\ Len(ints.items) = Len(given.items)
    /\ \A i \in 1..Len(given.items) :
          ints.items[i].t = "int" /\ IntMatches(given.items[i], ints.items[i].v)

AllElementsAreIds(value) == \A i \in 1..Len(value.items) : IsId(value.items[i])

\* text is the date of the datetime dt, written YYYY-MM-DD
DateDenotes(text, dt) ==
    /\ text.t = "str" /\ IsIsoDate(text.s)
    /\ CharsToInt(SubSeq(text.s, 1, 4)) = dt.y
    /\ CharsToInt(SubSeq(text.s, 6, 7)) = dt.mo
    /\ CharsToInt(SubSeq(text.s, 9, 10)) = dt.d

ValidDate(date) == date.t = "datetime" \/ (date.t = "str" /\ IsIsoDate(date.s))

\* sentDate is the normalized form of the valid date the caller gave
NormalizedDate(sentDate, date) ==
    IF date.t = "str" THEN sentDate = date ELSE DateDenotes(sentDate, date)

EntryOneOrMany == {"mark_as_invoiced", "mark_as_approved", "mark_as_unapproved"}

ActionOf(op) ==
    CASE op = "mark_as_invoiced" -> "mark_as_invoiced"
      [] op = "mark_as_approved" -> "approved"
      [] op = "mark_as_unapproved" -> "unapproved"
      [] op = "delete_tags" -> "delete"

ResourceOf(op) == IF op = "delete_tags" THEN "tags" ELSE "entries"
IdFieldOf(op) == IF op = "delete_tags" THEN "tag_ids" ELSE "entry_ids"
IdArgOf(c) == IF c.op = "delete_tags" THEN c.args.tag_ids ELSE c.args.entry_ids

PerRecordPath(op, id) == ResourceOf(op) \o "/" \o Text(Format(id)) \o "/" \o ActionOf(op)
BulkPath(op) == ResourceOf(op) \o "/" \o ActionOf(op)

\* C1 as stated: each of mark_as_invoiced, mark_as_approved,
\* mark_as_unapproved and delete_tags sends its request to the per-record
\* path resource/{id}/action when the identifier is a scalar, and to the bulk
\* path resource/action with the IDs under entry_ids / tag_ids when it is a
\* collection.
C1_ScalarOrCollection ==
    (call.op \in EntryOneOrMany \cup {"delete_tags"} /\ Issued) =>
        /\ Len(sent) = 1
        /\ IsScalar(IdArgOf(call)) =>
              /\ Req.uri = PerRecordPath(call.op, IdArgOf(call))
              /\ IdFieldOf(call.op) \notin DOMAIN Body
        /\ IsCollection(IdArgOf(call)) =>
              /\ Req.uri = BulkPath(call.op)
              /\ IdFieldOf(call.op) \in DOMAIN Body
              /\ SameIdsInOrder(Body[IdFieldOf(call.op)], IdArgOf(call))

\* C1 amended: mark_as_invoiced, mark_as_approved and mark_as_unapproved
\* test whether entry_ids is a list: any other value goes to the per-record
\* path entries/{entry_ids}/action with no entry_ids in the body, a list goes
\* to the bulk path entries/action with its IDs under entry_ids.  delete_tags
\* makes no such test: its request always goes to tags/delete with the IDs
\* under tag_ids.
C1_ListOrNot ==
    /\ (call.op \in EntryOneOrMany /\ Issued) =>
          /\ Len(sent) = 1
          /\ IF IsList(call.args.entry_ids)
             THEN /\ Req.uri = BulkPath(call.op)
                  /\ "entry_ids" \in DOMAIN Body
                  /\ SameIdsInOrder(Body.entry_ids, call.args.entry_ids)
             ELSE /\ Req.uri = PerRecordPath(call.op, call.args.entry_ids)
                  /\ "entry_ids" \notin DOMAIN Body
    /\ (call.op = "delete_tags" /\ Issued) =>
          /\ Len(sent) = 1
          /\ Req.uri = "tags/delete"
          /\ DOMAIN Body = {"tag_ids"}
          /\ Body.tag_ids.t = "list"
          /\ IsList(call.args.tag_ids) => SameIdsInOrder(Body.tag_ids, call.args.tag_ids)

\* mark_as_unapproved was given a list of two IDs and its request was sent
C1_Witness ==
    /\ call.op = "mark_as_unapproved"
    /\ IsList(call.args.entry_ids) /\ Len(call.args.entry_ids.items) = 2
    /\ Issued /\ pc = "done"

\* C2: for a list of integers and numeric strings and a valid date,
\* mark_as_invoiced issues one PUT to entries/mark_as_invoiced whose body is
\* exactly {date: the normalized date, entry_ids: the same IDs as integers in
\* the caller's order}.
C2_InvoicedBulk ==
    ( /\ call.op = "mark_as_invoiced"
      /\ IsList(call.args.entry_ids) /\ AllElementsAreIds(call.args.entry_ids)
      /\ ValidDate(call.args.date) ) =>
        /\ Len(sent) = 1
        /\ Req.uri = "entries/mark_as_invoiced"
        /\ Req.http_method = "PUT"
        /\ Req.query_params = PyNone
        /\ DOMAIN Body = {"date", "entry_ids"}
        /\ NormalizedDate(Body.date, call.args.date)
        /\ SameIdsInOrder(Body.entry_ids, call.args.entry_ids)

\* a list mixing an integer and a zero-padded numeric string was sent with a
\* datetime date
C2_Witness ==
    /\ call.op = "mark_as_invoiced"
    /\ call.args.entry_ids = PyList(<<PyInt(12), PyStr(<<"0", "7">>)>>)
    /\ call.args.date.t = "datetime"
    /\ Issued
    /\ Body.entry_ids = PyList(<<PyInt(12), PyInt(7)>>)

\* C3: for a scalar entry ID and a valid date, mark_as_invoiced issues one
\* PUT to entries/{id}/mark_as_invoiced whose body is exactly {date: the
\* normalized date}; a YYYY-MM-DD string is sent unchanged.
C3_InvoicedSingle ==
    ( /\ call.op = "mark_as_invoiced"
      /\ IsScalar(call.args.entry_ids)
      /\ ValidDate(call.args.date) ) =>
        /\ Len(sent) = 1
        /\ Req.uri = "entries/" \o Text(Format(call.args.entry_ids)) \o "/mark_as_invoiced"
        /\ Req.http_method = "PUT"
        /\ Req.query_params = PyNone
        /\ DOMAIN Body = {"date"}
        /\ NormalizedDate(Body.date, call.args.date)
        /\ call.args.date.t = "str" => Body.date = call.args.date

\* entry 12 was marked with a date given as a YYYY-MM-DD string
C3_Witness ==
    /\ call.op = "mark_as_invoiced"
    /\ call.args.entry_ids = PyInt(12)
    /\ call.args.date = PyStr(Date_2024_02_29)
    /\ Issued
    /\ Req.uri = "entries/12/mark_as_invoiced"

KeywordMethods ==
    {"list_entries", "create_entry", "edit_entry", "list_tags", "get_all_entries_for_tag"}

SchemaOf(op) ==
    CASE op \in {"list_entries", "get_all_entries_for_tag"} -> GetNokoEntriesParameters
      [] op = "list_tags" -> GetNokoTagsParameters
      [] op = "create_entry" -> CreateNokoEntryParameters
      [] op = "edit_entry" -> EditNokoEntryParameters

HasUnknownKeyword ==
    /\ call.op \in KeywordMethods
    /\ \E k \in DOMAIN call.args.kwargs : k \notin DOMAIN SchemaOf(call.op).fields

\* C4: a call of list_entries, create_entry, edit_entry, list_tags or
\* get_all_entries_for_tag with a keyword its schema does not declare ends in
\* a validation error, and fetch_json is never invoked during that call.
C4_UnknownKeywordRejected ==
    HasUnknownKeyword =>
        /\ pc = "done"
        /\ outcome = Raised("ValidationError")
        /\ sent = <<>>
        /\ reply = NoOutcome

\* list_entries was called with the undeclared keyword page next to a valid
\* filter
C4_Witness ==
    /\ call.op = "list_entries"
    /\ DOMAIN call.args.kwargs = {"page", "invoiced"}
    /\ pc = "done"

HasBadIdList ==
    /\ call.op \in EntryOneOrMany \cup {"delete_tags"}
    /\ IsList(IdArgOf(call))
    /\ ~AllElementsAreIds(IdArgOf(call))

HasMalformedDate ==
    \/ /\ call.op = "mark_as_invoiced"
       /\ call.args.date.t = "str" /\ ~IsIsoDate(call.args.date.s)
    \/ /\ call.op = "mark_as_approved"
       /\ call.args.approved_at.t = "str" /\ ~IsIsoTimestamp(call.args.approved_at.s)

\* C5: normalization comes before the transport.  A call whose ID list has
\* a non-numeric element (delete_tags, mark_as_invoiced, mark_as_approved,
\* mark_as_unapproved) or whose date / timestamp is a malformed string
\* (mark_as_invoiced / mark_as_approved) ends in a validation error, and in
\* no state of a call that ends in a validation error has a request been
\* issued.
C5_ValidationBeforeTransport ==
    /\ (HasBadIdList \/ HasMalformedDate) =>
          pc = "done" /\ outcome = Raised("ValidationError") /\ sent = <<>>
    /\ outcome = Raised("ValidationError") => sent = <<>> /\ reply = NoOutcome

\* mark_as_approved was given a well-formed timestamp and a list with a
\* non-numeric element
C5_Witness ==
    /\ call.op = "mark_as_approved"
    /\ call.args.approved_at = PyStr(Stamp_2024_01_01_10_00_00)
    /\ call.args.entry_ids = PyList(<<PyInt(5), PyStr(<<"x">>)>>)
    /\ pc = "done"

\* C6: the body create_entry and edit_entry send holds exactly the fields the
\* caller set: a field left unset (or given as None) is absent from the body,
\* not present with a null value.
C6_OnlySetFieldsInBody ==
    (call.op \in {"create_entry", "edit_entry"} /\ Issued) =>
        /\ Req.post_args.t = "dict"
        /\ DOMAIN Body = {k \in DOMAIN call.args.kwargs : call.args.kwargs[k] # PyNone}
        /\ \A k \in DOMAIN Body : Body[k] # PyNone

\* create_entry was sent with the three required fields only
C6_Witness ==
    /\ call.op = "create_entry"
    /\ DOMAIN call.args.kwargs = {"date", "user_id", "minutes"}
    /\ Issued
    /\ DOMAIN Body = {"date", "user_id", "minutes"}

ListMethods == {"list_tags", "list_entries", "get_all_entries_for_tag"}

\* C7: the list operations issue a GET whose query mapping has exactly the
\* filters the caller set, each a string in normalized form: True is sent as
\* "true", False as "false", an unset filter is omitted; so
\* list_tags(name="urgent", billable=True) sends {name: "urgent",
\* billable: "true"}.
C7_QueryHasSetFilters ==
    (call.op \in ListMethods /\ Issued) =>
        /\ Req.http_method = "GET"
        /\ Req.post_args = PyNone
        /\ Req.query_params.t = "dict"
        /\ DOMAIN Query = {k \in DOMAIN call.args.kwargs : call.args.kwargs[k] # PyNone}
        /\ \A k \in DOMAIN Query :
              /\ Query[k].t = "str"
              /\ call.args.kwargs[k] = PyBool(TRUE) => Query[k] = PyStr(Word_true)
              /\ call.args.kwargs[k] = PyBool(FALSE) =>
                    Query[k] = PyStr(<<"f", "a", "l", "s", "e">>)
        /\ ( /\ call.op = "list_tags"
             /\ call.args.kwargs = [name |-> PyStr(Word_urgent), billable |-> PyBool(TRUE)] )
           => /\ Req.uri = "tags"
              /\ Query = [name |-> PyStr(Word_urgent), billable |-> PyStr(Word_true)]

\* list_tags(name="urgent", billable=True) was sent
C7_Witness ==
    /\ call.op = "list_tags"
    /\ call.args.kwargs = [name |-> PyStr(Word_urgent), billable |-> PyBool(TRUE)]
    /\ Issued

\* C8: a call invokes the transport at most once: exactly once when
\* normalization succeeded, not at all when it failed, and not a second time
\* after the transport failed.
C8_AtMostOneRequest ==
    /\ Len(sent) <= 1
    /\ pc = "idle" => sent = <<>>
    /\ pc = "transport" => Len(sent) = 1
    /\ pc = "done" =>
          Len(sent) = (IF outcome = Raised("ValidationError") THEN 0 ELSE 1)
    /\ reply.kind = "raised" => pc = "done" /\ Len(sent) = 1

\* the transport failed under mark_as_approved
C8_Witness ==
    /\ call.op = "mark_as_approved"
    /\ reply.kind = "raised"
    /\ pc = "done"

MergeIssued == call.op = "merge_tag_into_this_tag" /\ Issued

\* C9 as stated: merge_tag_into_this_tag issues one PUT to tags/{id}/merge
\* whose body field carries the ID of the destination tag, the tag that is
\* kept and that the source tag's entries are reassigned to (tag_id).
C9_BodyCarriesDestination ==
    MergeIssued =>
        /\ Len(sent) = 1
        /\ Req.http_method = "PUT"
        /\ Req.uri \in {"tags/" \o Text(Format(call.args.tag_id)) \o "/merge",
                        "tags/" \o Text(Format(call.args.tag_to_merge_id)) \o "/merge"}
        /\ Body.tag_id = call.args.tag_id

\* C9 amended: merge_tag_into_this_tag issues one PUT to tags/{tag_id}/merge,
\* the path naming the destination tag (the tag that is kept), and the body
\* field tag_id carries the ID of the source tag (tag_to_merge_id), the tag
\* that is merged away.
C9_BodyCarriesSource ==
    MergeIssued =>
        /\ Len(sent) = 1
        /\ Req.http_method = "PUT"
        /\ Req.uri = "tags/" \o Text(Format(call.args.tag_id)) \o "/merge"
        /\ Req.query_params = PyNone
        /\ Body = [tag_id |-> call.args.tag_to_merge_id]

\* tag 12 was merged into tag 5
C9_Witness ==
    /\ MergeIssued
    /\ call.args.tag_id = PyInt(5)
    /\ call.args.tag_to_merge_id = PyInt(12)
    /\ Req.uri = "tags/5/merge"

\* C10: when the transport fails, the call ends with that same error
\* raised to the caller: not caught, replaced or wrapped, no value returned,
\* and no further request issued.
C10_TransportErrorPropagates ==
    reply.kind = "raised" =>
        /\ pc = "done"
        /\ outcome = Raised(reply.error)
        /\ Len(sent) = 1

\* the transport failed with an HTTP error under delete_entry
C10_Witness ==
    /\ call.op = "delete_entry"
    /\ reply = Raised("HTTPError")
    /\ pc = "done"

\* text is the instant of the datetime dt, written YYYY-MM-DDTHH:MM:SSZ
TimestampDenotes(text, dt) ==
    /\ text.t = "str" /\ IsIsoTimestamp(text.s)
    /\ CharsToInt(SubSeq(text.s, 1, 4)) = dt.y
    /\ CharsToInt(SubSeq(text.s, 6, 7)) = dt.mo
    /\ CharsToInt(SubSeq(text.s, 9, 10)) = dt.d
    /\ CharsToInt(SubSeq(text.s, 12, 13)) = dt.h
    /\ CharsToInt(SubSeq(text.s, 15, 16)) = dt.mi
    /\ CharsToInt(SubSeq(text.s, 18, 19)) = dt.s

ValidTimestamp(ts) ==
    ts.t \in {"none", "datetime"} \/ (ts.t = "str" /\ IsIsoTimestamp(ts.s))

\* C11: mark_as_approved always sends approved_at in the body of its PUT,
\* to entries/{id}/approved for a scalar ID and to entries/approved with
\* entry_ids as integers for a list: it is the caller's timestamp in
\* normalized string form when one is given, and the time of the call when
\* approved_at is absent.
C11_ApprovedAtAlwaysSent ==
    /\ ( /\ call.op = "mark_as_approved"
         /\ ValidTimestamp(call.args.approved_at)
         /\ IsList(call.args.entry_ids) => AllElementsAreIds(call.args.entry_ids) )
       => Len(sent) = 1
    /\ (call.op = "mark_as_approved" /\ Issued) =>
          /\ Req.http_method = "PUT"
          /\ "approved_at" \in DOMAIN Body
          /\ CASE call.args.approved_at.t = "none" ->
                      TimestampDenotes(Body.approved_at, call.args.now)
               [] call.args.approved_at.t = "datetime" ->
                      TimestampDenotes(Body.approved_at, call.args.approved_at)
               [] OTHER -> Body.approved_at = call.args.approved_at
          /\ IsScalar(call.args.entry_ids) =>
                /\ Req.uri = "entries/" \o Text(Format(call.args.entry_ids)) \o "/approved"
                /\ DOMAIN Body = {"approved_at"}
          /\ IsList(call.args.entry_ids) =>
                /\ Req.uri = "entries/approved"
                /\ DOMAIN Body = {"approved_at", "entry_ids"}
                /\ SameIdsInOrder(Body.entry_ids, call.args.entry_ids)

\* a list of two entries was approved with no approved_at, at
\* 2023-12-31 23:59:09
C11_Witness ==
    /\ call.op = "mark_as_approved"
    /\ call.args.approved_at = PyNone
    /\ call.args.now = PyDateTime(2023, 12, 31, 23, 59, 9)
    /\ call.args.entry_ids = PyList(<<PyInt(5), PyStr(<<"7">>)>>)
    /\ Issued
    /\ Body.approved_at =
          PyStr(<<"2", "0", "2", "3", "-", "1", "2", "-", "3", "1", "T",
                  "2", "3", ":", "5", "9", ":", "0", "9", "Z">>)

\* the arguments of the call other than entry_ids pass their normalization
OtherArgumentsValid ==
    CASE call.op = "mark_as_invoiced" -> ValidDate(call.args.date)
      [] call.op = "mark_as_approved" -> ValidTimestamp(call.args.approved_at)
      [] OTHER -> TRUE

Text_5_6 == PyStr(<<"5", ",", "6">>)

\* C12: in mark_as_invoiced, mark_as_approved and mark_as_unapproved the
\* bulk endpoint is chosen only when entry_ids is a list.  Any other value,
\* a comma-separated string ("5,6"), a non-numeric string or a tuple
\* included, is treated as a scalar: the request is issued without the
\* identifier being validated or converted, the identifier stands as it is
\* written in the path entries/{entry_ids}/action, and the body has no
\* entry_ids field.
C12_BulkOnlyForList ==
    /\ ( /\ call.op \in EntryOneOrMany
         /\ ~IsList(call.args.entry_ids)
         /\ OtherArgumentsValid )
       => /\ Len(sent) = 1
          /\ Req.uri = PerRecordPath(call.op, call.args.entry_ids)
          /\ "entry_ids" \notin DOMAIN Body
    /\ (call.op \in EntryOneOrMany /\ Issued /\ Req.uri = BulkPath(call.op))
       => IsList(call.args.entry_ids)
    /\ (call.op = "mark_as_unapproved" /\ call.args.entry_ids = Text_5_6)
       => Issued /\ Req.uri = "entries/5,6/unapproved" /\ Body = <<>>
    /\ (call.op = "mark_as_unapproved" /\ call.args.entry_ids = PyStr(<<"x">>))
       => Issued /\ Req.uri = "entries/x/unapproved" /\ Body = <<>>
    /\ ( /\ call.op = "mark_as_unapproved"
         /\ call.args.entry_ids = PyTuple(<<PyInt(5), PyStr(<<"7">>)>>) )
       => Issued /\ Req.uri = "entries/(5, '7')/unapproved" /\ Body = <<>>

\* mark_as_invoiced was given the comma-separated string "5,6" and its
\* request went to the per-record path
C12_Witness ==
    /\ call.op = "mark_as_invoiced"
    /\ call.args.entry_ids = Text_5_6
    /\ Issued
    /\ Req.uri = "entries/5,6/mark_as_invoiced"
    /\ DOMAIN Body = {"date"}

====
